---- MODULE Spec2Model ----
(***************************************************************************)
(* yks::ObjectPool<T> (src/memory/ObjectPool.hpp): a generational slot     *)
(* pool.  roster is the slot table, pool the dense storage, pool_indices   *)
(* the back-mapping from dense position to roster slot, first_free_index   *)
(* the head of the free list threaded through roster[].index.              *)
(*                                                                         *)
(* C++ vectors are modelled as TLA+ sequences: the element the code calls  *)
(* v[i] is v[i + 1] here.  All indices kept in the state are the code's    *)
(* 0-based indices.                                                        *)
(***************************************************************************)
EXTENDS Integers, Sequences, FiniteSets, TLC

\* ------------------------------------------------------------------ bounds
\* Largest number of simultaneously stored elements explored.
MaxPool == 3
\* Stored values are drawn from 1 .. MaxVal.
MaxVal == 2
\* Spec explores removals only while the slot's generation is below MaxGen.
MaxGen == 1

\* --------------------------------------------------------------- constants
\* SIZE_MAX, the free-list sentinel.  The model only compares it with vector
\* sizes, so it is the largest integer TLC represents.
SIZE_MAX == 2147483647
\* Width of Handle::generation.  Handle.hpp is not among the sources; the
\* counter is a fixed-width unsigned integer, scaled here to two bits so that
\* its whole range can be explored.
GenBits == 2
GenMod == 2 ^ GenBits

Values == 1 .. MaxVal
\* What operator[] yields for "no object": the null pointer.
Null == 0
\* What operator[] yields when its assertion fails.
AssertFailed == -1

\* ------------------------------------------------------------------ Handle
Handle(index, generation) == [index |-> index, generation |-> generation]
\* Handle(): the default handle, whose index is the sentinel.
DefaultHandle == Handle(SIZE_MAX, 0)

VARIABLES first_free_index, roster, pool, pool_indices,
          issued, live, removed, lastOp, ub, pc, frame

poolVars == <<first_free_index, roster, pool, pool_indices>>
vars == <<first_free_index, roster, pool, pool_indices,
          issued, live, removed, lastOp, ub, pc, frame>>

\* The pool object as one value, for the operators below.
Pool(f, r, p, pi) ==
    [first_free_index |-> f, roster |-> r, pool |-> p, pool_indices |-> pi]
This == Pool(first_free_index, roster, pool, pool_indices)
\* ObjectPool(): empty vectors, free-list head at the sentinel.
EmptyPool == Pool(SIZE_MAX, << >>, << >>, << >>)

Front(s) == SubSeq(s, 1, Len(s) - 1)

\* ------------------------------------------------------------- observers
\* isValid
IsValid(p, h) ==
    /\ h.index < Len(p.roster)
    /\ p.roster[h.index + 1].generation = h.generation

\* operator[] checking only that h.index is a roster position, not the
\* generation.
AccessRangeOnly(p, h) ==
    IF h.index < Len(p.roster)
    THEN IF p.roster[h.index + 1].index < Len(p.pool)
         THEN p.pool[p.roster[h.index + 1].index + 1]
         ELSE AssertFailed
    ELSE Null

\* operator[] : the pointed-to value, Null, or AssertFailed
Access(p, h) ==
    IF IsValid(p, h)
    THEN IF p.roster[h.index + 1].index < Len(p.pool)
         THEN p.pool[p.roster[h.index + 1].index + 1]
         ELSE AssertFailed
    ELSE Null

\* makeHandle returning Handle(index, 0) instead of Handle() for a position
\* past the end of dense storage.
MakeHandleNoSentinel(p, index) ==
    IF index >= Len(p.pool)
    THEN Handle(index, 0)
    ELSE Handle(index, p.roster[p.pool_indices[index + 1] + 1].generation)

\* makeHandle
MakeHandle(p, index) ==
    IF index >= Len(p.pool)
    THEN DefaultHandle
    ELSE Handle(index, p.roster[p.pool_indices[index + 1] + 1].generation)

\* getPoolIndex
GetPoolIndex(p, h) ==
    IF IsValid(p, h) THEN p.roster[h.index + 1].index ELSE SIZE_MAX

\* -------------------------------------------------------------- mutators
\* expand_roster
ExpandRoster(p) ==
    LET new_entry == Handle(p.first_free_index, 0)
    IN  [p EXCEPT !.first_free_index = Len(p.roster),
                  !.roster = Append(p.roster, new_entry)]

\* emplace returning Handle(roster_index, 0) instead of the slot's current
\* generation.
EmplaceOpGen0(p, v) ==
    LET p1 == IF p.first_free_index >= Len(p.roster) THEN ExpandRoster(p) ELSE p
        roster_index == p1.first_free_index
        r1 == [p1.roster EXCEPT ![roster_index + 1].index = Len(p1.pool)]
    IN  [state  |-> Pool(p1.roster[roster_index + 1].index,
                         r1,
                         Append(p1.pool, v),
                         Append(p1.pool_indices, roster_index)),
         handle |-> Handle(roster_index, 0)]

\* emplace without the test of line 29: the roster is expanded on every call.
EmplaceOpAlwaysExpand(p, v) ==
    LET p1 == ExpandRoster(p)
        roster_index == p1.first_free_index
        r1 == [p1.roster EXCEPT ![roster_index + 1].index = Len(p1.pool)]
    IN  [state  |-> Pool(p1.roster[roster_index + 1].index,
                         r1,
                         Append(p1.pool, v),
                         Append(p1.pool_indices, roster_index)),
         handle |-> Handle(roster_index, r1[roster_index + 1].generation)]

\* emplace with lines 38 and 39 exchanged: the slot's index is set to
\* pool.size() after the element has been appended.
EmplaceOpIndexAfterPush(p, v) ==
    LET p1 == IF p.first_free_index >= Len(p.roster) THEN ExpandRoster(p) ELSE p
        roster_index == p1.first_free_index
        r1 == [p1.roster EXCEPT ![roster_index + 1].index = Len(p1.pool) + 1]
    IN  [state  |-> Pool(p1.roster[roster_index + 1].index,
                         r1,
                         Append(p1.pool, v),
                         Append(p1.pool_indices, roster_index)),
         handle |-> Handle(roster_index, r1[roster_index + 1].generation)]

\* emplace: the pool afterwards and the handle returned
EmplaceOp(p, v) ==
    LET p1 == IF p.first_free_index >= Len(p.roster) THEN ExpandRoster(p) ELSE p
        roster_index == p1.first_free_index
        r1 == [p1.roster EXCEPT ![roster_index + 1].index = Len(p1.pool)]
    IN  [state  |-> Pool(p1.roster[roster_index + 1].index,
                         r1,
                         Append(p1.pool, v),
                         Append(p1.pool_indices, roster_index)),
         handle |-> Handle(roster_index, r1[roster_index + 1].generation)]

\* ++generation on an unsigned counter of GenBits bits
Bump(g) == (g + 1) % GenMod

\* The slot h.index holds an element: its index is a dense position that maps
\* back to it.  remove(h) on a valid handle is defined only then.
Occupied(p, s) ==
    /\ s < Len(p.roster)
    /\ p.roster[s + 1].index < Len(p.pool)
    /\ p.pool_indices[p.roster[s + 1].index + 1] = s

\* remove without line 59: the moved slot's position is not updated.
RemoveOpNoPatch(p, h) ==
    IF ~IsValid(p, h) THEN p
    ELSE
    LET roster_index == h.index
        pool_index == p.roster[roster_index + 1].index
        moved_pool_index == Len(p.pool) - 1
        pl1 == [p.pool EXCEPT ![pool_index + 1] = p.pool[moved_pool_index + 1]]
        pi1 == [p.pool_indices EXCEPT
                   ![pool_index + 1] = p.pool_indices[moved_pool_index + 1]]
        r2 == [p.roster EXCEPT ![roster_index + 1].generation = Bump(@)]
        r3 == [r2 EXCEPT ![roster_index + 1].index = p.first_free_index]
    IN  Pool(roster_index, r3, Front(pl1), Front(pi1))

\* remove without line 63: pool_indices.pop_back() is missing.
RemoveOpNoIndexPop(p, h) ==
    IF ~IsValid(p, h) THEN p
    ELSE
    LET roster_index == h.index
        pool_index == p.roster[roster_index + 1].index
        moved_roster_index == p.pool_indices[Len(p.pool_indices)]
        moved_pool_index == Len(p.pool) - 1
        r1 == [p.roster EXCEPT ![moved_roster_index + 1].index = pool_index]
        pl1 == [p.pool EXCEPT ![pool_index + 1] = p.pool[moved_pool_index + 1]]
        pi1 == [p.pool_indices EXCEPT
                   ![pool_index + 1] = p.pool_indices[moved_pool_index + 1]]
        r2 == [r1 EXCEPT ![roster_index + 1].generation = Bump(@)]
        r3 == [r2 EXCEPT ![roster_index + 1].index = p.first_free_index]
    IN  Pool(roster_index, r3, Front(pl1), pi1)

\* remove with the generation increment hoisted above the validity check: a
\* stale handle whose index is a roster position still bumps the slot.
RemoveOpEarlyBump(p, h) ==
    IF h.index >= Len(p.roster) THEN p
    ELSE IF p.roster[h.index + 1].generation # h.generation
    THEN [p EXCEPT !.roster[h.index + 1].generation = Bump(@)]
    ELSE
    LET roster_index == h.index
        pool_index == p.roster[roster_index + 1].index
        moved_roster_index == p.pool_indices[Len(p.pool_indices)]
        moved_pool_index == Len(p.pool) - 1
        r1 == [p.roster EXCEPT ![moved_roster_index + 1].index = pool_index]
        pl1 == [p.pool EXCEPT ![pool_index + 1] = p.pool[moved_pool_index + 1]]
        pi1 == [p.pool_indices EXCEPT
                   ![pool_index + 1] = p.pool_indices[moved_pool_index + 1]]
        r2 == [r1 EXCEPT ![roster_index + 1].generation = Bump(@)]
        r3 == [r2 EXCEPT ![roster_index + 1].index = p.first_free_index]
    IN  Pool(roster_index, r3, Front(pl1), Front(pi1))

\* remove without line 62: the back-mapping entry at pool_index is not
\* rewritten.
RemoveOpNoBackPatch(p, h) ==
    IF ~IsValid(p, h) THEN p
    ELSE
    LET roster_index == h.index
        pool_index == p.roster[roster_index + 1].index
        moved_roster_index == p.pool_indices[Len(p.pool_indices)]
        moved_pool_index == Len(p.pool) - 1
        r1 == [p.roster EXCEPT ![moved_roster_index + 1].index = pool_index]
        pl1 == [p.pool EXCEPT ![pool_index + 1] = p.pool[moved_pool_index + 1]]
        r2 == [r1 EXCEPT ![roster_index + 1].generation = Bump(@)]
        r3 == [r2 EXCEPT ![roster_index + 1].index = p.first_free_index]
    IN  Pool(roster_index, r3, Front(pl1), Front(p.pool_indices))

\* remove without line 67: the freed slot is not linked to the old free-list
\* head.
RemoveOpNoLink(p, h) ==
    IF ~IsValid(p, h) THEN p
    ELSE
    LET roster_index == h.index
        pool_index == p.roster[roster_index + 1].index
        moved_roster_index == p.pool_indices[Len(p.pool_indices)]
        moved_pool_index == Len(p.pool) - 1
        r1 == [p.roster EXCEPT ![moved_roster_index + 1].index = pool_index]
        pl1 == [p.pool EXCEPT ![pool_index + 1] = p.pool[moved_pool_index + 1]]
        pi1 == [p.pool_indices EXCEPT
                   ![pool_index + 1] = p.pool_indices[moved_pool_index + 1]]
        r2 == [r1 EXCEPT ![roster_index + 1].generation = Bump(@)]
    IN  Pool(roster_index, r2, Front(pl1), Front(pi1))

\* remove without line 60: the last element is not moved into the hole.
RemoveOpNoMove(p, h) ==
    IF ~IsValid(p, h) THEN p
    ELSE
    LET roster_index == h.index
        pool_index == p.roster[roster_index + 1].index
        moved_roster_index == p.pool_indices[Len(p.pool_indices)]
        moved_pool_index == Len(p.pool) - 1
        r1 == [p.roster EXCEPT ![moved_roster_index + 1].index = pool_index]
        pi1 == [p.pool_indices EXCEPT
                   ![pool_index + 1] = p.pool_indices[moved_pool_index + 1]]
        r2 == [r1 EXCEPT ![roster_index + 1].generation = Bump(@)]
        r3 == [r2 EXCEPT ![roster_index + 1].index = p.first_free_index]
    IN  Pool(roster_index, r3, Front(p.pool), Front(pi1))

\* remove, statement by statement
RemoveOp(p, h) ==
    IF ~IsValid(p, h) THEN p
    ELSE
    LET roster_index == h.index
        pool_index == p.roster[roster_index + 1].index
        moved_roster_index == p.pool_indices[Len(p.pool_indices)]
        moved_pool_index == Len(p.pool) - 1
        r1 == [p.roster EXCEPT ![moved_roster_index + 1].index = pool_index]
        pl1 == [p.pool EXCEPT ![pool_index + 1] = p.pool[moved_pool_index + 1]]
        pl2 == Front(pl1)
        pi1 == [p.pool_indices EXCEPT
                   ![pool_index + 1] = p.pool_indices[moved_pool_index + 1]]
        pi2 == Front(pi1)
        r2 == [r1 EXCEPT ![roster_index + 1].generation = Bump(@)]
        r3 == [r2 EXCEPT ![roster_index + 1].index = p.first_free_index]
    IN  Pool(roster_index, r3, pl2, pi2)

\* ----------------------------------------------------------------- ghosts
\* issued  : every handle emplace has returned
\* live    : <<handle, value>> for each emplace whose handle has not been
\*           passed to remove since
\* removed : the emplace-issued handles that have been passed to remove
\* lastOp  : the last call, its argument and its result; valid tells whether
\*           isValid held of the argument when remove was called
\* ub      : a call with undefined behaviour has been made
\* pc      : "idle" between calls; inside a remove that runs statement by
\*           statement (SpecSteps), the line of the next statement
\* frame   : the argument and the local constants of that remove
NoOp == [op |-> "none", h |-> DefaultHandle, v |-> Null, fresh |-> FALSE,
         valid |-> FALSE]

NoFrame == [h |-> DefaultHandle, roster_index |-> 0, pool_index |-> 0,
            moved_roster_index |-> 0, moved_pool_index |-> 0]

Init ==
    /\ first_free_index = EmptyPool.first_free_index
    /\ roster = EmptyPool.roster
    /\ pool = EmptyPool.pool
    /\ pool_indices = EmptyPool.pool_indices
    /\ issued = {}
    /\ live = {}
    /\ removed = {}
    /\ lastOp = NoOp
    /\ ub = FALSE
    /\ pc = "idle"
    /\ frame = NoFrame

Install(p) ==
    /\ first_free_index' = p.first_free_index
    /\ roster' = p.roster
    /\ pool' = p.pool
    /\ pool_indices' = p.pool_indices

Emplace(v) ==
    /\ pc = "idle"
    /\ ~ub
    /\ Len(pool) < MaxPool
    /\ LET e == EmplaceOp(This, v)
       IN  /\ Install(e.state)
           /\ issued' = issued \cup {e.handle}
           /\ live' = live \cup {<<e.handle, v>>}
           /\ lastOp' = [op |-> "emplace", h |-> e.handle, v |-> v,
                         fresh |-> e.handle \notin issued, valid |-> TRUE]
    /\ UNCHANGED <<removed, ub, pc, frame>>

\* The handles a caller passes to remove: those emplace returned, the default
\* handle, and a handle whose index is past the end of the roster.
CallerHandles == issued \cup {DefaultHandle, Handle(Len(roster), 0)}

\* remove(h) has defined behaviour: h is invalid, or its slot holds an element
Defined(p, h) == IsValid(p, h) => Occupied(p, h.index)

RemoveStep(h) ==
    /\ pc = "idle"
    /\ ~ub
    /\ Defined(This, h)
    /\ Install(RemoveOp(This, h))
    /\ live' = {x \in live : x[1] # h}
    /\ removed' = IF h \in issued THEN removed \cup {h} ELSE removed
    /\ lastOp' = [op |-> "remove", h |-> h, v |-> Null, fresh |-> FALSE,
                  valid |-> IsValid(This, h)]
    /\ UNCHANGED <<issued, ub, pc, frame>>

\* remove within the explored generation range
Remove(h) ==
    /\ IsValid(This, h) => roster[h.index + 1].generation < MaxGen
    /\ RemoveStep(h)

\* remove over the whole range of the generation counter
RemoveWrap(h) == RemoveStep(h)

\* remove(h) with h valid by generation but its slot on the free list: the
\* code reads the slot's free-list link as a dense position.  The build
\* either aborts or goes on with the statements when every index they use is
\* inside its vector.
InBounds(p, h) ==
    /\ Len(p.pool) > 0
    /\ Len(p.pool_indices) = Len(p.pool)
    /\ p.roster[h.index + 1].index < Len(p.pool)

RemoveUB(h) ==
    /\ pc = "idle"
    /\ ~ub
    /\ ~Defined(This, h)
    /\ ub' = TRUE
    /\ \/ UNCHANGED poolVars
       \/ InBounds(This, h) /\ Install(RemoveOp(This, h))
    /\ lastOp' = [op |-> "remove", h |-> h, v |-> Null, fresh |-> FALSE,
                  valid |-> IsValid(This, h)]
    /\ UNCHANGED <<issued, live, removed, pc, frame>>

Next ==
    \/ \E v \in Values : Emplace(v)
    \/ \E h \in CallerHandles : Remove(h)

Spec == Init /\ [][Next]_vars

NextWrap ==
    \/ \E v \in Values : Emplace(v)
    \/ \E h \in CallerHandles : RemoveWrap(h)
    \/ \E h \in CallerHandles : RemoveUB(h)

SpecWrap == Init /\ [][NextWrap]_vars

\* ------------------------------------------- remove, one statement a step
\* Lines 46-56: the validity test and the local constants.  An invalid handle
\* returns at once; a valid one goes on to line 59.
RemoveCall(h) ==
    /\ pc = "idle"
    /\ ~ub
    /\ Defined(This, h)
    /\ IsValid(This, h) => roster[h.index + 1].generation < MaxGen
    /\ IF ~IsValid(This, h)
       THEN /\ lastOp' = [op |-> "remove", h |-> h, v |-> Null,
                          fresh |-> FALSE, valid |-> FALSE]
            /\ live' = {x \in live : x[1] # h}
            /\ removed' = IF h \in issued THEN removed \cup {h} ELSE removed
            /\ UNCHANGED <<pc, frame>>
       ELSE /\ frame' = [h |-> h,
                         roster_index |-> h.index,
                         pool_index |-> roster[h.index + 1].index,
                         moved_roster_index |-> pool_indices[Len(pool_indices)],
                         moved_pool_index |-> Len(pool) - 1]
            /\ pc' = "L59"
            /\ UNCHANGED <<lastOp, live, removed>>
    /\ UNCHANGED <<poolVars, issued, ub>>

\* roster[moved_roster_index].index = pool_index;
Line59 ==
    /\ pc = "L59"
    /\ roster' = [roster EXCEPT
                     ![frame.moved_roster_index + 1].index = frame.pool_index]
    /\ pc' = "L60"
    /\ UNCHANGED <<first_free_index, pool, pool_indices,
                   issued, live, removed, lastOp, ub, frame>>

\* pool[pool_index] = std::move(pool[moved_pool_index]);
Line60 ==
    /\ pc = "L60"
    /\ pool' = [pool EXCEPT
                   ![frame.pool_index + 1] = pool[frame.moved_pool_index + 1]]
    /\ pc' = "L61"
    /\ UNCHANGED <<first_free_index, roster, pool_indices,
                   issued, live, removed, lastOp, ub, frame>>

\* pool.pop_back();
Line61 ==
    /\ pc = "L61"
    /\ pool' = Front(pool)
    /\ pc' = "L62"
    /\ UNCHANGED <<first_free_index, roster, pool_indices,
                   issued, live, removed, lastOp, ub, frame>>

\* pool_indices[pool_index] = pool_indices[moved_pool_index];
Line62 ==
    /\ pc = "L62"
    /\ pool_indices' = [pool_indices EXCEPT
                           ![frame.pool_index + 1] =
                               pool_indices[frame.moved_pool_index + 1]]
    /\ pc' = "L63"
    /\ UNCHANGED <<first_free_index, roster, pool,
                   issued, live, removed, lastOp, ub, frame>>

\* pool_indices.pop_back();
Line63 ==
    /\ pc = "L63"
    /\ pool_indices' = Front(pool_indices)
    /\ pc' = "L66"
    /\ UNCHANGED <<first_free_index, roster, pool,
                   issued, live, removed, lastOp, ub, frame>>

\* ++roster[roster_index].generation;
Line66 ==
    /\ pc = "L66"
    /\ roster' = [roster EXCEPT
                     ![frame.roster_index + 1].generation = Bump(@)]
    /\ pc' = "L67"
    /\ UNCHANGED <<first_free_index, pool, pool_indices,
                   issued, live, removed, lastOp, ub, frame>>

\* roster[roster_index].index = first_free_index;
Line67 ==
    /\ pc = "L67"
    /\ roster' = [roster EXCEPT
                     ![frame.roster_index + 1].index = first_free_index]
    /\ pc' = "L68"
    /\ UNCHANGED <<first_free_index, pool, pool_indices,
                   issued, live, removed, lastOp, ub, frame>>

\* first_free_index = roster_index; and the return
Line68 ==
    /\ pc = "L68"
    /\ first_free_index' = frame.roster_index
    /\ pc' = "idle"
    /\ frame' = NoFrame
    /\ live' = {x \in live : x[1] # frame.h}
    /\ removed' = removed \cup {frame.h}
    /\ lastOp' = [op |-> "remove", h |-> frame.h, v |-> Null,
                  fresh |-> FALSE, valid |-> TRUE]
    /\ UNCHANGED <<roster, pool, pool_indices, issued, ub>>

NextSteps ==
    \/ \E v \in Values : Emplace(v)
    \/ \E h \in CallerHandles : RemoveCall(h)
    \/ Line59
    \/ Line60
    \/ Line61
    \/ Line62
    \/ Line63
    \/ Line66
    \/ Line67
    \/ Line68

SpecSteps == Init /\ [][NextSteps]_vars

\* ------------------------------------------------------------ free list
\* The slots reached from `head` through roster[].index links, stopping at an
\* index past the end of the roster (fuel bounds the walk by the roster size).
RECURSIVE FreeWalk(_, _, _)
FreeWalk(p, head, fuel) ==
    IF head >= Len(p.roster) \/ fuel = 0
    THEN {}
    ELSE {head} \cup FreeWalk(p, p.roster[head + 1].index, fuel - 1)

FreeSlots(p) == FreeWalk(p, p.first_free_index, Len(p.roster))

\* Number of slots that are not on the free list.
OccupiedCount(p) == Len(p.roster) - Cardinality(FreeSlots(p))

\* Handles a caller could hold or forge, for the claims that speak of every
\* handle.
AllHandles ==
    {Handle(i, g) : i \in (0 .. MaxPool) \cup {SIZE_MAX}, g \in 0 .. GenMod - 1}

DensePositions == 0 .. Len(pool) - 1

\* ================================================================ claims

\* C1: the handle returned by emplace(v) is valid immediately afterwards and
\* operator[] on it yields a non-null pointer to an element equal to v.
C1_RoundTrip ==
    LET t == This IN
    lastOp.op = "emplace" =>
        /\ IsValid(t, lastOp.h)
        /\ Access(t, lastOp.h) # Null
        /\ Access(t, lastOp.h) = lastOp.v

\* C1 witness: emplace has just reused a freed slot while another element is
\* stored.
C1_Witness ==
    /\ lastOp.op = "emplace"
    /\ lastOp.h.generation > 0
    /\ Len(pool) >= 2

\* C2: once remove(h) has been called on an emplace-issued handle h, h is
\* invalid and operator[](h) is null in every later state, whatever emplace
\* and remove calls follow.
C2_PermanentInvalidation ==
    \A h \in removed : ~IsValid(This, h) /\ Access(This, h) = Null

\* C3: every handle returned by emplace and not itself passed to remove is
\* valid and operator[] on it yields the value inserted for it.
C3_LiveHandlesSurvive ==
    LET t == This IN
    \A x \in live : IsValid(t, x[1]) /\ Access(t, x[1]) = x[2]

\* C3 witness: after a remove, a live handle of generation 0 (inserted at the
\* dense position equal to its slot index) sits at another dense position.
C3_Witness ==
    /\ lastOp.op = "remove"
    /\ lastOp.h \in removed
    /\ \E x \in live : /\ x[1].generation = 0
                       /\ GetPoolIndex(This, x[1]) # x[1].index

\* C4: pool.size() = pool_indices.size() = number of occupied slots = number
\* of emplace-issued handles not yet removed; the pool is empty once every
\* issued handle has been removed.
C4_Density ==
    /\ Len(pool) = Len(pool_indices)
    /\ Len(pool) = OccupiedCount(This)
    /\ Len(pool) = Cardinality(live)
    /\ issued \subseteq removed => Len(pool) = 0

\* C4 witness: at least three handles were issued over at least two slots and
\* the last of them has just been removed.
C4_Witness ==
    /\ lastOp.op = "remove"
    /\ Cardinality(issued) >= 3
    /\ Len(roster) >= 2
    /\ issued \subseteq removed
    /\ Len(pool) = 0

\* C5: for every dense position i, makeHandle(i) is valid, getPoolIndex of it
\* is i, it is the handle emplace returned for the element at pool[i], and
\* distinct positions give distinct handles.
C5_MakeHandleRoundTrip ==
    /\ \A i \in DensePositions :
          LET h == MakeHandle(This, i)
          IN  /\ IsValid(This, h)
              /\ GetPoolIndex(This, h) = i
              /\ <<h, pool[i + 1]>> \in live
    /\ \A i, j \in DensePositions :
          i # j => MakeHandle(This, i) # MakeHandle(This, j)

\* C6: for every handle obtained from emplace or makeHandle, validity implies
\* that its slot is occupied: roster[h.index].index < pool.size() and the slot
\* is not on the free list.
C6_ValidMeansOccupied ==
    \A h \in issued \cup {MakeHandle(This, i) : i \in 0 .. MaxPool} :
        IsValid(This, h) =>
            /\ roster[h.index + 1].index < Len(pool)
            /\ h.index \notin FreeSlots(This)

\* C7: for every emplace-issued handle h, remove(h) twice in a row leaves the
\* pool exactly as remove(h) once.
C7_IdempotentRemove ==
    LET t == This IN
    \A h \in issued : RemoveOp(RemoveOp(t, h), h) = RemoveOp(t, h)

\* C7 witness: remove has just taken out a stored element, elements remain,
\* and its handle is there to be passed to remove again.
C7_Witness ==
    /\ lastOp.op = "remove"
    /\ lastOp.h \in removed
    /\ ~IsValid(This, lastOp.h)
    /\ Len(pool) >= 1
    /\ \E h \in issued : IsValid(This, h)

\* C8: for every invalid handle (stale generation, index past the roster, the
\* default handle) operator[] is null, getPoolIndex is SIZE_MAX and remove
\* changes nothing.
C8_InvalidAbsorbed ==
    LET t == This IN
    \A h \in AllHandles \cup CallerHandles :
        ~IsValid(t, h) =>
            /\ Access(t, h) = Null
            /\ GetPoolIndex(t, h) = SIZE_MAX
            /\ RemoveOp(t, h) = t

\* C8 witness: remove has just been called with a stale handle whose slot
\* holds a newer element.
C8_Witness ==
    /\ lastOp.op = "remove"
    /\ lastOp.h \in removed
    /\ ~IsValid(This, lastOp.h)
    /\ Occupied(This, lastOp.h.index)

\* C9: no two emplace calls over the pool's lifetime return equal
\* (index, generation) handles.
C9_GenerationDistinct ==
    lastOp.op = "emplace" => lastOp.fresh

\* C10: the default handle is invalid in every state; with no insertion made
\* operator[] is null for every handle; makeHandle(i) for i >= pool.size() is
\* the default handle.
C10_SentinelInvalid ==
    LET t == This IN
    /\ ~IsValid(t, DefaultHandle)
    /\ Access(t, DefaultHandle) = Null
    /\ issued = {} => \A h \in AllHandles : Access(t, h) = Null
    /\ \A i \in (Len(pool) .. MaxPool + 1) \cup {SIZE_MAX} :
          /\ MakeHandle(t, i) = DefaultHandle
          /\ ~IsValid(t, MakeHandle(t, i))

\* C10 witness: elements are stored, slots have been freed, and remove has
\* just been called with the default handle.
C10_Witness ==
    /\ lastOp.op = "remove"
    /\ lastOp.h = DefaultHandle
    /\ Len(pool) >= 1
    /\ Len(roster) > Len(pool)

\* ------------------------------------------------- slots and free list
RosterSlots == 0 .. Len(roster) - 1

\* The slots some dense position maps back to: the slots that hold an element.
UsedSlots == {pool_indices[i + 1] : i \in 0 .. Len(pool_indices) - 1}

\* The free list as the sequence of slots visited from `head` (fuel bounds the
\* walk), and the link at which the walk stops.
RECURSIVE FreeSeq(_, _, _)
FreeSeq(p, head, fuel) ==
    IF head >= Len(p.roster) \/ fuel = 0
    THEN << >>
    ELSE <<head>> \o FreeSeq(p, p.roster[head + 1].index, fuel - 1)

RECURSIVE FreeEnd(_, _, _)
FreeEnd(p, head, fuel) ==
    IF head >= Len(p.roster) \/ fuel = 0
    THEN head
    ELSE FreeEnd(p, p.roster[head + 1].index, fuel - 1)

FreeList == FreeSeq(This, first_free_index, Len(roster) + 1)

\* C11: every occupied slot s has roster[s].index < pool.size() and
\* pool_indices[roster[s].index] = s; every dense position i has
\* roster[pool_indices[i]].index = i; pool_indices is injective and the
\* assertion of remove about the last element holds.
C11_RosterBackMapping ==
    LET t == This IN
    /\ \A s \in RosterSlots \ FreeSlots(t) :
          /\ roster[s + 1].index < Len(pool)
          /\ pool_indices[roster[s + 1].index + 1] = s
    /\ \A i \in 0 .. Len(pool_indices) - 1 :
          /\ pool_indices[i + 1] < Len(roster)
          /\ roster[pool_indices[i + 1] + 1].index = i
    /\ \A i, j \in 0 .. Len(pool_indices) - 1 :
          i # j => pool_indices[i + 1] # pool_indices[j + 1]
    /\ Len(pool) > 0 =>
          roster[pool_indices[Len(pool_indices)] + 1].index = Len(pool) - 1

\* C11 witness: a remove has compacted the storage, leaving at least two
\* elements, one of them (a generation 0 handle) away from the position it
\* was inserted at, and a free slot.
C11_Witness ==
    /\ lastOp.op = "remove"
    /\ lastOp.h \in removed
    /\ Len(pool) >= 2
    /\ Len(roster) > Len(pool)
    /\ \E x \in live : /\ x[1].generation = 0
                       /\ roster[x[1].index + 1].index # x[1].index

\* C12: the walk from first_free_index through roster[].index visits every
\* free slot exactly once, no occupied slot, has no cycle and ends at a value
\* >= roster.size(); free slots plus pool.size() equal roster.size().
C12_FreeListWellFormed ==
    /\ \A i, j \in 1 .. Len(FreeList) : i # j => FreeList[i] # FreeList[j]
    /\ {FreeList[i] : i \in 1 .. Len(FreeList)} = RosterSlots \ UsedSlots
    /\ FreeEnd(This, first_free_index, Len(roster) + 1) >= Len(roster)
    /\ Len(FreeList) + Len(pool) = Len(roster)

\* C12 witness: two slots are on the free list, freed in an order other than
\* their slot order, while an element is stored.
C12_Witness ==
    /\ Len(FreeList) >= 2
    /\ FreeList[1] < FreeList[2]
    /\ Len(pool) >= 1
    /\ lastOp.op = "remove"

\* C13: remove(h) of a valid handle whose element is at dense position p of n
\* leaves n - 1 elements; the element that was last is at p, with
\* pool_indices[p] and its slot's index set to p; every other element keeps
\* position, value and slot entry; when p = n - 1 no other slot entry changes.
C13_SwapAndPop ==
    LET t == This IN
    \A h \in issued :
        IsValid(t, h) =>
            LET q == RemoveOp(t, h)
                p == roster[h.index + 1].index
                n == Len(pool)
                last == pool_indices[n]
            IN  /\ Len(q.pool) = n - 1
                /\ Len(q.pool_indices) = n - 1
                /\ p # n - 1 =>
                      /\ q.pool[p + 1] = pool[n]
                      /\ q.pool_indices[p + 1] = last
                      /\ q.roster[last + 1].index = p
                      /\ q.roster[last + 1].generation
                            = roster[last + 1].generation
                /\ \A i \in 0 .. n - 2 :
                      i # p =>
                          /\ q.pool[i + 1] = pool[i + 1]
                          /\ q.pool_indices[i + 1] = pool_indices[i + 1]
                          /\ q.roster[pool_indices[i + 1] + 1]
                                = roster[pool_indices[i + 1] + 1]
                /\ p = n - 1 =>
                      \A s \in RosterSlots \ {h.index} :
                          q.roster[s + 1] = roster[s + 1]

\* C13 witness: remove has just taken the element of slot 0 out of three; the
\* element of slot 2 has moved from dense position 2 to 0 and the element of
\* slot 1 is still at position 1.
C13_Witness ==
    /\ lastOp.op = "remove"
    /\ lastOp.h = Handle(0, 0)
    /\ lastOp.h \in removed
    /\ Len(pool) = 2
    /\ IsValid(This, Handle(2, 0)) /\ GetPoolIndex(This, Handle(2, 0)) = 0
    /\ IsValid(This, Handle(1, 0)) /\ GetPoolIndex(This, Handle(1, 0)) = 1
    /\ pool[1] # pool[2]

\* C14: an emplace that follows remove(h) of a valid handle returns the handle
\* (h.index, h.generation + 1) and leaves roster.size() unchanged; a remove
\* of a valid handle makes its slot the free-list head, and emplace with a
\* free slot takes the head and returns that slot's current generation.
C14_LifoReuse ==
    [][ /\ (lastOp'.op = "remove" /\ lastOp'.valid) =>
               first_free_index' = lastOp'.h.index
        /\ lastOp'.op = "emplace" =>
               /\ (lastOp.op = "remove" /\ lastOp.valid) =>
                      /\ lastOp'.h = Handle(lastOp.h.index,
                                            lastOp.h.generation + 1)
                      /\ Len(roster') = Len(roster)
               /\ FreeList # << >> =>
                      /\ lastOp'.h = Handle(FreeList[1],
                                            roster[FreeList[1] + 1].generation)
                      /\ Len(roster') = Len(roster)
      ]_vars

\* C15: roster.size() never decreases; emplace adds exactly one slot, of
\* generation 0, if and only if no slot is free, and otherwise reuses a free
\* slot; roster.size() is the largest number of elements ever stored at once.
\* The last part is stated step by step: the largest pool.size() so far starts
\* at 0 with the empty roster and after each call is the larger of its old
\* value and the new pool.size(), and so is roster.size().
C15_RosterGrowth ==
    /\ Len(roster) = 0 /\ Len(pool) = 0
    /\ [][ /\ Len(roster') >= Len(roster)
           /\ lastOp'.op = "remove" => Len(roster') = Len(roster)
           /\ lastOp'.op = "emplace" =>
                 /\ (RosterSlots \ UsedSlots = {})
                       <=> (Len(roster') = Len(roster) + 1)
                 /\ (RosterSlots \ UsedSlots # {}) =>
                       /\ Len(roster') = Len(roster)
                       /\ lastOp'.h.index \in RosterSlots \ UsedSlots
                 /\ (Len(roster') # Len(roster)) =>
                       /\ roster'[Len(roster')].generation = 0
                       /\ lastOp'.h = Handle(Len(roster), 0)
                       /\ SubSeq(roster', 1, Len(roster)) = roster
           /\ Len(roster') = IF Len(roster) >= Len(pool')
                            THEN Len(roster) ELSE Len(pool')
         ]_vars

\* C15 witness: the roster has grown to three slots, fewer elements are stored
\* now, and emplace has just reused a freed slot instead of growing it.
C15_Witness ==
    /\ lastOp.op = "emplace"
    /\ lastOp.h.generation > 0
    /\ Len(roster) = 3
    /\ Len(pool) < Len(roster)

\* remove run statement by statement ends in the pool that RemoveOp gives:
\* between calls, the states of SpecSteps satisfy what the claims above say of
\* Spec.
StepsAgree ==
    pc = "idle" =>
        /\ C3_LiveHandlesSurvive
        /\ C4_Density
        /\ C11_RosterBackMapping
        /\ C12_FreeListWellFormed

\* C16: inside remove, once dense storage has been truncated (pool.pop_back())
\* the back-mapping entry at pool_index and the moved slot's position have
\* already been written: at no step is the storage shorter while
\* pool_indices[pool_index] still holds its old entry.
C16_UpdateBeforeTruncate ==
    (/\ pc # "idle"
     /\ Len(pool) = frame.moved_pool_index
     /\ frame.pool_index < Len(pool)) =>
        /\ roster[frame.moved_roster_index + 1].index = frame.pool_index
        /\ pool_indices[frame.pool_index + 1] = frame.moved_roster_index

\* C17: every emplace step changes no slot's generation, leaves every stored
\* element at its dense position with its value (getPoolIndex and operator[] of
\* every valid issued handle are unchanged), leaves every invalid issued handle
\* invalid, and puts the new element at dense position old pool.size().
C17_EmplaceFrame ==
    [][lastOp'.op = "emplace" =>
        LET t == This
            q == Pool(first_free_index', roster', pool', pool_indices')
        IN  /\ \A s \in RosterSlots :
                  q.roster[s + 1].generation = roster[s + 1].generation
            /\ Len(q.pool) = Len(pool) + 1
            /\ \A i \in DensePositions :
                  /\ q.pool[i + 1] = pool[i + 1]
                  /\ q.pool_indices[i + 1] = pool_indices[i + 1]
            /\ \A h \in issued :
                  IF IsValid(t, h)
                  THEN /\ IsValid(q, h)
                       /\ GetPoolIndex(q, h) = GetPoolIndex(t, h)
                       /\ Access(q, h) = Access(t, h)
                  ELSE ~IsValid(q, h)
            /\ GetPoolIndex(q, lastOp'.h) = Len(pool)
            /\ q.pool[Len(pool) + 1] = lastOp'.v]_vars

\* C17 witness: emplace has just put a third element into a reused slot, at
\* dense position 2, while stale handles exist.
C17_Witness ==
    /\ lastOp.op = "emplace"
    /\ lastOp.h.generation > 0
    /\ Len(pool) = 3
    /\ GetPoolIndex(This, lastOp.h) = 2
    /\ \E h \in removed : ~IsValid(This, h)

====
